---------------------------- MODULE Spec2Model ----------------------------
(* KIEP analytics server (src/mcp/kiep-analytics/server.py): the five      *)
(* tools get_region_health, compare_regions, find_industry_cluster,        *)
(* get_company_360 and predict_complex_risk, each one invocation that      *)
(* awaits remote fetches and derives a structured payload.                 *)
(*                                                                         *)
(* Conventions.  Korean string literals of the source are written in       *)
(* romanised ASCII (the band "wiheom" is the source's first band, and so   *)
(* on).  Region codes and complex codes are keys and are written as        *)
(* numbers; a business number is a sequence of one-character strings so    *)
(* that str.replace and len act on it as they do in the source.  A JSON    *)
(* object is a function on its keys, so dict.get(key, default) is Get.     *)
(* An absent code defaults to 0 where the source defaults to the empty     *)
(* string.  op_rate is the float the source computes: a binary64 value     *)
(* kept as its sign, its 53 significand bits and the position of its       *)
(* binary point, with the division and the multiplication each rounded to  *)
(* nearest, ties to even.  A rounded rate is counted in tenths of a        *)
(* percent.  Scores and counts that arrive from the API are integers       *)
(* here.  A text that the source                                           *)
(* formats from numbers (a factor, a summary) is the tuple of the values   *)
(* it is formatted from.                                                   *)
EXTENDS Integers, Sequences, FiniteSets, TLC

VARIABLES pc, tool, args, fetched, body, results, ret

vars == <<pc, tool, args, fetched, body, results, ret>>

-----------------------------------------------------------------------------
(* Bounds of the model's inputs.                                           *)

MaxCodes == 6
MaxBizLen == 12
MaxRegions == 3
MaxComplexes == 21

-----------------------------------------------------------------------------
(* JSON helpers.                                                           *)

EmptyObject == [k \in {} |-> 0]

Get(obj, key, default) == IF key \in DOMAIN obj THEN obj[key] ELSE default

NoReturn == [kind |-> "none"]
ErrorPayload(msg) == [kind |-> "error", error |-> msg]
Raised(exc) == [kind |-> "exception", exc |-> exc]
Result(payload) == [kind |-> "result", payload |-> payload]

(* One awaited client.get: the endpoint and key asked for, and either the  *)
(* status of the response or the fact that the await raised (timeout or    *)
(* transport failure: httpx raises, there is no response object).          *)
Responded(endpoint, key, status) ==
    [endpoint |-> endpoint, key |-> key, outcome |-> "response", status |-> status]
FetchRaised(endpoint, key) ==
    [endpoint |-> endpoint, key |-> key, outcome |-> "raised", status |-> 0]

Range(s) == {s[i] : i \in 1..Len(s)}

-----------------------------------------------------------------------------
(* Python's sorted(seq, key=..., reverse=True) and list.sort: a stable     *)
(* sort, so elements with equal keys keep their original relative order    *)
(* also under reverse=True.  SortedDesc returns the elements; OrderDesc    *)
(* the permutation of indices, by insertion from the left.                 *)

RECURSIVE InsertDesc(_, _, _)
InsertDesc(order, i, keys) ==
    IF order = <<>> THEN <<i>>
    ELSE IF keys[Head(order)] >= keys[i]
         THEN <<Head(order)>> \o InsertDesc(Tail(order), i, keys)
         ELSE <<i>> \o order

RECURSIVE OrderUpTo(_, _)
OrderUpTo(keys, n) ==
    IF n = 0 THEN <<>> ELSE InsertDesc(OrderUpTo(keys, n - 1), n, keys)

(* A sort that is not stable: equal keys come out in reverse order, as     *)
(* reversing an ascending stable sort does.                                *)
RECURSIVE InsertTiesFirst(_, _, _)
InsertTiesFirst(order, i, keys) ==
    IF order = <<>> THEN <<i>>
    ELSE IF keys[Head(order)] > keys[i]
         THEN <<Head(order)>> \o InsertTiesFirst(Tail(order), i, keys)
         ELSE <<i>> \o order

RECURSIVE OrderTiesReversedUpTo(_, _)
OrderTiesReversedUpTo(keys, n) ==
    IF n = 0 THEN <<>>
    ELSE InsertTiesFirst(OrderTiesReversedUpTo(keys, n - 1), n, keys)

OrderDescTiesReversed(keys) == OrderTiesReversedUpTo(keys, Len(keys))

OrderDesc(keys) == OrderUpTo(keys, Len(keys))

SortedDesc(seq, field) ==
    LET order == OrderDesc([i \in 1..Len(seq) |-> seq[i][field]])
    IN  [k \in 1..Len(seq) |-> seq[order[k]]]

(* Python's seq[:n]: the first n elements, and for a negative n all but    *)
(* the last -n elements.                                                   *)
SliceTo(seq, n) ==
    IF n >= 0
    THEN SubSeq(seq, 1, IF n < Len(seq) THEN n ELSE Len(seq))
    ELSE SubSeq(seq, 1, Len(seq) + n)

-----------------------------------------------------------------------------
(* predict_complex_risk: the per-complex scoring.                          *)

ResultLimit == 20

(* tenant = cx.get("tenant_count", 0) or 1 *)
TenantOf(cx) ==
    LET t == Get(cx, "tenant_count", 0) IN IF t = 0 THEN 1 ELSE t

(* ---- binary64 arithmetic on bit sequences (most significant first) ---- *)
(* operating / tenant and the product with 100 are float operations in the *)
(* source.  The operators below compute them bit by bit, so that they      *)
(* stay within the model checker's integers; they cover tenant counts      *)
(* below 2^23 and operating counts below 2^30 in magnitude.                *)

Significand == 53

Zeros(k) == [i \in 1..k |-> 0]

AnyOne(bits) == \E i \in 1..Len(bits) : bits[i] = 1

(* The binary digits of n >= 0, none for 0. *)
IntBits(n) ==
    LET len == CHOOSE k \in 0..30 : n < 2 ^ k /\ \A j \in 0..(k - 1) : n >= 2 ^ j
    IN  [i \in 1..len |-> (n \div 2 ^ (len - i)) % 2]

RECURSIVE BitsInt(_)
BitsInt(bits) ==
    IF bits = <<>> THEN 0
    ELSE 2 * BitsInt(SubSeq(bits, 1, Len(bits) - 1)) + bits[Len(bits)]

(* The sequence without its leading zeros. *)
StripZeros(bits) ==
    IF AnyOne(bits)
    THEN SubSeq(bits, CHOOSE i \in 1..Len(bits) :
                          bits[i] = 1 /\ \A j \in 1..(i - 1) : bits[j] = 0,
                Len(bits))
    ELSE <<>>

(* The sum of two bit sequences: the carry into position i is 1 when some  *)
(* lower position generates one and every position between passes it on.   *)
AddBits(a, b) ==
    LET n == (IF Len(a) > Len(b) THEN Len(a) ELSE Len(b)) + 1
        pa == Zeros(n - Len(a)) \o a
        pb == Zeros(n - Len(b)) \o b
        Carry(i) == IF \E j \in (i + 1)..n :
                           /\ pa[j] + pb[j] = 2
                           /\ \A k \in (i + 1)..(j - 1) : pa[k] + pb[k] = 1
                    THEN 1 ELSE 0
    IN  StripZeros([i \in 1..n |-> (pa[i] + pb[i] + Carry(i)) % 2])

RECURSIVE TimesFrom(_, _, _)
TimesFrom(a, kbits, acc) ==
    IF kbits = <<>> THEN acc
    ELSE LET doubled == IF acc = <<>> THEN acc ELSE Append(acc, 0)
         IN  TimesFrom(a, Tail(kbits),
                       IF Head(kbits) = 1 THEN AddBits(doubled, a) ELSE doubled)

(* The exact product of a bit sequence and a positive integer. *)
TimesBits(a, k) == TimesFrom(a, IntBits(k), <<>>)

(* Round a significand that starts with a 1 to 53 bits, to nearest with    *)
(* ties to even; sticky tells that nonzero bits follow those given.  The   *)
(* value is 0.bits * 2^pt.                                                 *)
Round53(bits, sticky, pt) ==
    IF Len(bits) <= Significand
    THEN [bits |-> bits \o Zeros(Significand - Len(bits)), pt |-> pt]
    ELSE LET m == SubSeq(bits, 1, Significand)
             guard == bits[Significand + 1]
             rest == sticky \/ AnyOne(SubSeq(bits, Significand + 2, Len(bits)))
         IN  IF guard = 1 /\ (rest \/ m[Significand] = 1)
             THEN LET up == AddBits(m, <<1>>)
                  IN  IF Len(up) > Significand
                      THEN [bits |-> SubSeq(up, 1, Significand), pt |-> pt + 1]
                      ELSE [bits |-> up, pt |-> pt]
             ELSE [bits |-> m, pt |-> pt]

(* The binary expansion of rem / t for 0 <= rem < t, taken eight places   *)
(* at a time: the remainder left after n places, the first n bits, and the *)
(* zeros before the first 1.                                               *)
RECURSIVE FracRem(_, _, _)
FracRem(rem, t, n) ==
    IF n >= 8 THEN FracRem((rem * 256) % t, t, n - 8) ELSE (rem * 2 ^ n) % t

FracBits(rem, t, n) ==
    [i \in 1..n |-> IF 2 * FracRem(rem, t, i - 1) >= t THEN 1 ELSE 0]

LeadingZeros(rem, t) ==
    CHOOSE k \in 0..30 : /\ 2 * FracRem(rem, t, k) >= t
                         /\ \A j \in 0..(k - 1) : 2 * FracRem(rem, t, j) < t

(* o / t for integers o > 0 and t > 0: the correctly rounded quotient. *)
FloatDiv(o, t) ==
    LET ib == IntBits(o \div t)
        rem == o % t
        lead == IF ib = <<>> THEN LeadingZeros(rem, t) ELSE 0
        need == IF ib = <<>> THEN lead + Significand + 1
                ELSE IF Len(ib) <= Significand THEN Significand + 1 - Len(ib) ELSE 0
        fb == FracBits(rem, t, need)
        bits == IF ib = <<>> THEN SubSeq(fb, lead + 1, need) ELSE ib \o fb
    IN  Round53(bits, FracRem(rem, t, need) # 0, IF ib = <<>> THEN -lead ELSE Len(ib))

(* f * k for a positive float f and a positive integer k. *)
FloatTimes(f, k) ==
    LET product == TimesBits(f.bits, k)
    IN  Round53(product, FALSE, f.pt + Len(product) - Significand)

FloatZero == [neg |-> FALSE, bits |-> <<>>, pt |-> 0]

(* The integer part of the magnitude, and whether a fraction follows it. *)
IntPart(rate) ==
    IF rate.bits = <<>> \/ rate.pt <= 0 THEN 0
    ELSE IF rate.pt <= Significand THEN BitsInt(SubSeq(rate.bits, 1, rate.pt))
    ELSE BitsInt(rate.bits \o Zeros(rate.pt - Significand))

HasFraction(rate) ==
    /\ rate.bits # <<>>
    /\ rate.pt <= 0 \/ AnyOne(SubSeq(rate.bits, rate.pt + 1, Significand))

(* op_rate = (operating / tenant) * 100 if tenant > 0 else 0 *)
OpRate(operating, tenant) ==
    IF tenant > 0 /\ operating # 0
    THEN LET f == FloatTimes(FloatDiv(IF operating < 0 THEN -operating ELSE operating,
                                      tenant), 100)
         IN  [neg |-> operating < 0, bits |-> f.bits, pt |-> f.pt]
    ELSE FloatZero

(* op_rate < k for an integer k. *)
RateBelow(rate, k) ==
    IF rate.neg
    THEN IntPart(rate) > -k \/ (IntPart(rate) = -k /\ HasFraction(rate))
    ELSE IntPart(rate) < k

(* round(op_rate, 1), and the .1f of the factor texts, in tenths of a      *)
(* percent: the tenth nearest to the float's exact value, a tie going to   *)
(* the even tenth.                                                         *)
RoundTenths(rate) ==
    IF rate.bits = <<>> THEN 0
    ELSE LET p == TimesBits(rate.bits, 10)
             pt == rate.pt + Len(p) - Significand
             whole == IF pt <= 0 THEN 0
                      ELSE IF pt <= Len(p) THEN BitsInt(SubSeq(p, 1, pt))
                      ELSE BitsInt(p \o Zeros(pt - Len(p)))
             half == IF pt >= 0 /\ pt < Len(p) THEN p[pt + 1] ELSE 0
             rest == pt >= 0 /\ AnyOne(SubSeq(p, pt + 2, Len(p)))
             tenths == IF half = 1 /\ (rest \/ whole % 2 = 1) THEN whole + 1 ELSE whole
         IN  IF rate.neg THEN -tenths ELSE tenths

OccupancyPoints(occupancy) ==
    IF occupancy < 70 THEN 30 ELSE IF occupancy < 85 THEN 15 ELSE 0

OperatingPoints(rate) ==
    IF RateBelow(rate, 60) THEN 30 ELSE IF RateBelow(rate, 80) THEN 15 ELSE 0

EmploymentPoints(employment) == IF employment < 1000 THEN 20 ELSE 0

RiskScore(occupancy, rate, employment) ==
    OccupancyPoints(occupancy) + OperatingPoints(rate) + EmploymentPoints(employment)

(* The thresholds taken exclusively. *)
RiskLevelExclusive(risk_score) ==
    IF risk_score > 50 THEN "nopeum"
    ELSE IF risk_score > 25 THEN "botong"
    ELSE "najeum"

RiskLevel(risk_score) ==
    IF risk_score >= 50 THEN "nopeum"
    ELSE IF risk_score >= 25 THEN "botong"
    ELSE "najeum"

Factors(occupancy, rate, employment) ==
    (IF occupancy < 70 THEN <<[label |-> "low_occupancy", value |-> occupancy]>>
     ELSE IF occupancy < 85 THEN <<[label |-> "moderate_occupancy", value |-> occupancy]>>
     ELSE <<>>)
    \o
    (IF RateBelow(rate, 60) THEN <<[label |-> "low_operating", value |-> RoundTenths(rate)]>>
     ELSE IF RateBelow(rate, 80) THEN <<[label |-> "moderate_operating", value |-> RoundTenths(rate)]>>
     ELSE <<>>)
    \o
    (IF employment < 1000 THEN <<[label |-> "small_employment", value |-> employment]>>
     ELSE <<>>)

(* One iteration of the loop over complexes: the appended entry. *)
AssessComplex(cx) ==
    LET tenant == TenantOf(cx)
        operating == Get(cx, "operating_count", 0)
        occupancy == Get(cx, "occupancy_rate", 0)
        employment == Get(cx, "employment", 0)
        op_rate == OpRate(operating, tenant)
        risk_score == RiskScore(occupancy, op_rate, employment)
    IN  [complex_code |-> Get(cx, "id", Get(cx, "complex_code", 0)),
         name |-> Get(cx, "name", ""),
         risk_score |-> risk_score,
         risk_level |-> RiskLevel(risk_score),
         factors |-> Factors(occupancy, op_rate, employment),
         metrics |-> [occupancy_rate |-> occupancy,
                      operating_rate |-> RoundTenths(op_rate),
                      tenant_count |-> tenant,
                      employment |-> employment]]

(* risk_results after the loop and risk_results.sort(...). *)
RiskResults(complexes) ==
    SortedDesc([i \in 1..Len(complexes) |-> AssessComplex(complexes[i])],
               "risk_score")

HighRisk(risk_results) ==
    {i \in 1..Len(risk_results) : risk_results[i].risk_level = "nopeum"}

(* The counts taken from the listed slice instead of the full list. *)
RiskReportOfListed(risk_results) ==
    LET listed == SliceTo(risk_results, ResultLimit)
    IN  [total_analyzed |-> Len(listed),
         high_risk_count |-> Cardinality(HighRisk(listed)),
         results |-> listed,
         summary |-> <<Len(listed), Cardinality(HighRisk(listed))>>]

RiskReport(risk_results) ==
    [total_analyzed |-> Len(risk_results),
     high_risk_count |-> Cardinality(HighRisk(risk_results)),
     results |-> SliceTo(risk_results, ResultLimit),
     summary |-> <<Len(risk_results), Cardinality(HighRisk(risk_results))>>]

-----------------------------------------------------------------------------
(* get_region_health: the band of a score.                                 *)

(* The boundaries given to the lower band. *)
HealthBandInclusive(score) ==
    IF score <= 40 THEN "wiheom"
    ELSE IF score <= 55 THEN "juui"
    ELSE IF score <= 70 THEN "botong"
    ELSE IF score <= 85 THEN "yangho"
    ELSE "usu"

HealthBand(score) ==
    IF score < 40 THEN "wiheom"
    ELSE IF score < 55 THEN "juui"
    ELSE IF score < 70 THEN "botong"
    ELSE IF score < 85 THEN "yangho"
    ELSE "usu"

HealthReport(region_code, reg, health) ==
    LET score == Get(reg, "health_score", 0)
    IN  [region_code |-> region_code,
         region_name |-> Get(reg, "name", ""),
         province |-> Get(reg, "province", ""),
         health_score |-> score,
         health_band |-> HealthBand(score),
         metrics |-> [company_count |-> Get(reg, "company_count", 0),
                      employee_count |-> Get(reg, "employee_count", 0),
                      growth_rate |-> Get(reg, "growth_rate", 0),
                      new_biz_rate |-> Get(health, "new_biz_rate", 0),
                      closure_rate |-> Get(health, "closure_rate", 0),
                      revenue_growth |-> Get(health, "revenue_growth", 0)]]

-----------------------------------------------------------------------------
(* compare_regions: validation, the collected entry, the rankings.         *)

MaxCompare == 5

TooManyRegions(region_codes) == Len(region_codes) > MaxCompare

CompareEntry(code, data) ==
    [region_code |-> code,
     name |-> Get(data, "name", ""),
     health_score |-> Get(data, "health_score", 0),
     company_count |-> Get(data, "company_count", 0),
     employee_count |-> Get(data, "employee_count", 0),
     growth_rate |-> Get(data, "growth_rate", 0)]

(* The rank i + 1 that enumerate(sorted(...)) writes into the i-th record  *)
(* of the sorted list, read back for the record at index i of seq.         *)
RankOf(seq, field, i) ==
    LET order == OrderDesc([j \in 1..Len(seq) |-> seq[j][field]])
    IN  CHOOSE k \in 1..Len(seq) : order[k] = i

(* The records of results after both ranking loops; the dicts are shared   *)
(* between results and ranked, so every record carries every rank.         *)
Annotated(seq) ==
    [i \in 1..Len(seq) |->
        seq[i] @@ [health_rank |-> RankOf(seq, "health_score", i),
                   health_score_rank |-> RankOf(seq, "health_score", i),
                   company_count_rank |-> RankOf(seq, "company_count", i),
                   employee_count_rank |-> RankOf(seq, "employee_count", i),
                   growth_rate_rank |-> RankOf(seq, "growth_rate", i)]]

CompareReport(seq) ==
    LET ranked == SortedDesc(Annotated(seq), "health_score")
    IN  [comparison |-> ranked,
         count |-> Len(ranked),
         best_health |-> ranked[1].name]

-----------------------------------------------------------------------------
(* find_industry_cluster: substring match, first hit per region.           *)

(* industry in name, on sequences of characters. *)
Contains(keyword, name) ==
    \E i \in 0..(Len(name) - Len(keyword)) :
        SubSeq(name, i + 1, i + Len(keyword)) = keyword

(* The inner loop with its break: the index of the entry bound to match,   *)
(* 0 when match stays None.                                                *)
RECURSIVE FirstMatchFrom(_, _, _)
FirstMatchFrom(industries, keyword, k) ==
    IF k > Len(industries) THEN 0
    ELSE IF Contains(keyword, Get(industries[k], "name", <<>>)) THEN k
    ELSE FirstMatchFrom(industries, keyword, k + 1)

(* The loop without its break: the last matching entry wins. *)
RECURSIVE LastMatchFrom(_, _, _)
LastMatchFrom(industries, keyword, k) ==
    IF k = 0 THEN 0
    ELSE IF Contains(keyword, Get(industries[k], "name", <<>>)) THEN k
    ELSE LastMatchFrom(industries, keyword, k - 1)

LastMatch(industries, keyword) == LastMatchFrom(industries, keyword, Len(industries))

FirstMatch(industries, keyword) == FirstMatchFrom(industries, keyword, 1)

(* if match and match.get("count", 0) >= min_companies: an empty dict is   *)
(* falsy like None.                                                        *)
Retains(reg, keyword, min_companies) ==
    LET industries == Get(reg, "top_industries", <<>>)
        m == FirstMatch(industries, keyword)
    IN  /\ m # 0
        /\ DOMAIN industries[m] # {}
        /\ Get(industries[m], "count", 0) >= min_companies

ClusterEntry(reg, keyword) ==
    LET industries == Get(reg, "top_industries", <<>>)
        match == industries[FirstMatch(industries, keyword)]
    IN  [region_code |-> Get(reg, "code", 0),
         region_name |-> Get(reg, "name", ""),
         province |-> Get(reg, "province", ""),
         industry_name |-> Get(match, "name", <<>>),
         company_count |-> Get(match, "count", 0),
         employee_count |-> Get(reg, "employee_count", 0),
         health_score |-> Get(reg, "health_score", 0)]

RECURSIVE CollectClusters(_, _, _)
CollectClusters(regions, keyword, min_companies) ==
    IF regions = <<>> THEN <<>>
    ELSE (IF Retains(Head(regions), keyword, min_companies)
          THEN <<ClusterEntry(Head(regions), keyword)>> ELSE <<>>)
         \o CollectClusters(Tail(regions), keyword, min_companies)

(* clusters after clusters.sort(...), before the slice. *)
Clusters(regions, keyword, min_companies) ==
    SortedDesc(CollectClusters(regions, keyword, min_companies), "company_count")

TopClusters(clusters, top_n) == SliceTo(clusters, top_n)

ClusterReport(clusters, keyword, top_n) ==
    [industry |-> keyword,
     total_clusters |-> Len(clusters),
     top_clusters |-> TopClusters(clusters, top_n),
     summary |-> <<keyword, Len(clusters), Len(TopClusters(clusters, top_n))>>]

-----------------------------------------------------------------------------
(* get_company_360: key normalisation and validation, the profile.         *)

BizLen == 10

(* The key taken as given, hyphens and all. *)
StripNothing(biz_no) == biz_no

(* biz_no.replace("-", "") *)
RECURSIVE StripHyphens(_)
StripHyphens(biz_no) ==
    IF biz_no = <<>> THEN <<>>
    ELSE IF Head(biz_no) = "-" THEN StripHyphens(Tail(biz_no))
    ELSE <<Head(biz_no)>> \o StripHyphens(Tail(biz_no))

BadBizNo(clean_biz) == Len(clean_biz) # BizLen

CompanyProfile(clean_biz, company) ==
    [biz_no |-> clean_biz,
     name |-> Get(company, "name", ""),
     status |-> Get(company, "status", ""),
     industry |-> Get(company, "industry_name", ""),
     address |-> Get(company, "address", ""),
     employment |-> [current |-> Get(company, "employee_count", 0),
                     history |-> Get(company, "employment_history", <<>>)],
     financials |-> Get(company, "financials", <<>>),
     procurement |-> [total_contracts |-> Get(company, "procurement_count", 0),
                      total_amount |-> Get(company, "procurement_amount", 0),
                      recent |-> Get(company, "recent_procurement", <<>>)],
     health_score |-> Get(company, "health_score", 0),
     region_code |-> Get(company, "region_code", 0)]

-----------------------------------------------------------------------------
(* The remote API: what the fetches can answer.                            *)

Reg(code, name, hs, cc, ec, gr) ==
    [code |-> code, name |-> name, province |-> "Seoul", health_score |-> hs,
     company_count |-> cc, employee_count |-> ec, growth_rate |-> gr]

(* Regions the API serves, by code.  The first three are the ones          *)
(* compare_regions is asked about: two tie on health_score and differ on   *)
(* company_count, two tie on company_count and on growth_rate.  The        *)
(* others spread health_score around the band boundaries.                  *)
RegionTable ==
    << Reg(11010, "A", 80, 100, 500, 2),
       Reg(11020, "B", 80, 200, 500, -1),
       Reg(11030, "C", 60, 200, 900, 2),
       Reg(11040, "D", -5, 0, 0, 0),
       Reg(11050, "E", 0, 1, 1, 0),
       Reg(11060, "F", 38, 10, 40, 1),
       Reg(11070, "G", 39, 10, 40, 1),
       Reg(11080, "H", 40, 10, 40, 1),
       Reg(11090, "I", 54, 10, 40, 1),
       Reg(11100, "J", 55, 10, 40, 1),
       Reg(11110, "K", 69, 10, 40, 1),
       Reg(11120, "L", 70, 10, 40, 1),
       Reg(11130, "M", 84, 10, 40, 1),
       Reg(11140, "N", 85, 10, 40, 1),
       Reg(11150, "O", 100, 10, 40, 1),
       Reg(11160, "P", 120, 10, 40, 1),
       [code |-> 11170, name |-> "Q"] >>

ServedCodes == {RegionTable[i].code : i \in 1..Len(RegionTable)}
(* 99999 is a code the API does not serve. *)
RegionCodes == ServedCodes \cup {99999}
CompareCodes == {11010, 11020, 11030, 99999}

RegionOf(code) == RegionTable[CHOOSE i \in 1..Len(RegionTable) : RegionTable[i].code = code]

HealthMetrics == [new_biz_rate |-> 5, closure_rate |-> 3, revenue_growth |-> 7]

(* What a non-success response carries when its body is JSON. *)
ErrorBody == [detail |-> "error"]

-----------------------------------------------------------------------------
(* Invocations.  pc is the await the invocation is suspended at.           *)

Init ==
    /\ pc = "idle"
    /\ tool = "none"
    /\ args = EmptyObject
    /\ fetched = <<>>
    /\ body = EmptyObject
    /\ results = <<>>
    /\ ret = NoReturn

Return(r) ==
    /\ pc' = "done"
    /\ ret' = r

(* ---- get_region_health ---- *)

HealthCall ==
    /\ pc = "idle"
    /\ tool' = "get_region_health"
    /\ \E region_code \in RegionCodes : args' = [region_code |-> region_code]
    /\ pc' = "health_region"
    /\ UNCHANGED <<fetched, body, results, ret>>

(* resp = await client.get(f"/api/regions/{region_code}") and the code up  *)
(* to the next await: only 404 is told apart, any other response is parsed *)
(* with resp.json().                                                       *)
HealthRegionRaised ==
    /\ pc = "health_region"
    /\ fetched' = Append(fetched, FetchRaised("region", args.region_code))
    /\ Return(Raised("transport"))
    /\ UNCHANGED <<tool, args, body, results>>

HealthRegionNotFound ==
    /\ pc = "health_region"
    /\ fetched' = Append(fetched, Responded("region", args.region_code, 404))
    /\ Return(ErrorPayload("region_not_found"))
    /\ UNCHANGED <<tool, args, body, results>>

HealthRegionOk ==
    /\ pc = "health_region"
    /\ args.region_code \in ServedCodes
    /\ fetched' = Append(fetched, Responded("region", args.region_code, 200))
    /\ body' = RegionOf(args.region_code)
    /\ pc' = "health_metrics"
    /\ UNCHANGED <<tool, args, results, ret>>

HealthRegionOther ==
    /\ pc = "health_region"
    /\ fetched' = Append(fetched, Responded("region", args.region_code, 500))
    /\ \/ /\ body' = ErrorBody
          /\ pc' = "health_metrics"
          /\ UNCHANGED ret
       \/ /\ Return(Raised("json_decode"))
          /\ UNCHANGED body
    /\ UNCHANGED <<tool, args, results>>

(* health_resp = await client.get(f"/api/health/{region_code}") to return. *)
HealthMetricsRaised ==
    /\ pc = "health_metrics"
    /\ fetched' = Append(fetched, FetchRaised("health", args.region_code))
    /\ Return(Raised("transport"))
    /\ UNCHANGED <<tool, args, body, results>>

HealthMetricsResponse ==
    /\ pc = "health_metrics"
    /\ \E status \in {200, 404, 500} :
        LET health == IF status = 200 THEN HealthMetrics ELSE EmptyObject
        IN  /\ fetched' = Append(fetched, Responded("health", args.region_code, status))
            /\ Return(Result(HealthReport(args.region_code, body, health)))
    /\ UNCHANGED <<tool, args, body, results>>

(* ---- compare_regions ---- *)

CodeLists == UNION {[1..n -> CompareCodes] : n \in 0..MaxCodes}

(* The call up to its first await: the length check, and for an empty      *)
(* list the loop that never runs and the "not results" exit.               *)
CompareCall ==
    /\ pc = "idle"
    /\ tool' = "compare_regions"
    /\ \E region_codes \in CodeLists :
        /\ args' = [region_codes |-> region_codes]
        /\ IF TooManyRegions(region_codes)
           THEN Return(ErrorPayload("too_many_regions"))
           ELSE IF region_codes = <<>>
                THEN Return(ErrorPayload("no_valid_region"))
                ELSE pc' = "compare_loop" /\ UNCHANGED ret
    /\ UNCHANGED <<fetched, body, results>>

(* The code the loop is suspended on: one fetch per iteration. *)
CurrentCode == args.region_codes[Len(fetched) + 1]

CompareFetchRaised ==
    /\ pc = "compare_loop"
    /\ fetched' = Append(fetched, FetchRaised("region", CurrentCode))
    /\ Return(Raised("transport"))
    /\ UNCHANGED <<tool, args, body, results>>

(* After the response of one iteration: append on 200, then either the     *)
(* next await or everything after the loop.                                *)
CompareAfter(code, status, collected) ==
    /\ fetched' = Append(fetched, Responded("region", code, status))
    /\ IF Len(fetched) + 1 < Len(args.region_codes)
       THEN /\ results' = collected
            /\ UNCHANGED <<pc, ret>>
       ELSE IF collected = <<>>
            THEN /\ results' = collected
                 /\ Return(ErrorPayload("no_valid_region"))
            ELSE /\ results' = Annotated(collected)
                 /\ Return(Result(CompareReport(collected)))
    /\ UNCHANGED <<tool, args, body>>

CompareFetchOk ==
    /\ pc = "compare_loop"
    /\ CurrentCode \in ServedCodes
    /\ CompareAfter(CurrentCode, 200,
                    Append(results, CompareEntry(CurrentCode, RegionOf(CurrentCode))))

(* Any status other than 200: 404 for a code the API does not serve, 500   *)
(* for any code while the API is failing.                                  *)
CompareFetchFailed ==
    /\ pc = "compare_loop"
    /\ \E status \in (IF CurrentCode \in ServedCodes THEN {500} ELSE {404, 500}) :
        CompareAfter(CurrentCode, status, results)

(* ---- find_industry_cluster ---- *)

Semi == <<"ban", "do", "che">>
SemiParts == <<"ban", "do", "che", "bu", "pum">>
Auto == <<"ja", "dong", "cha">>

Ind(name, count) == [name |-> name, count |-> count]

Area(code, name, industries) ==
    [code |-> code, name |-> name, province |-> "Gyeonggi",
     employee_count |-> 1000, health_score |-> 70, top_industries |-> industries]

ClusterRegions ==
    { Area(41110, "S", <<Ind(SemiParts, 8), Ind(Semi, 12)>>),
      Area(41130, "T", <<Ind(Auto, 30), Ind(Semi, 15)>>),
      Area(41150, "U", <<Ind(Semi, 15), Ind(Auto, 15)>>),
      Area(41170, "V", <<Ind(Semi, 40)>>),
      [code |-> 41190, name |-> "W"] }

(* The list endpoint answers with distinct regions, in any order. *)
RegionLists ==
    {l \in UNION {[1..n -> ClusterRegions] : n \in 0..MaxRegions} :
        \A i, j \in 1..Len(l) : l[i] = l[j] => i = j}

Keywords == {Semi, Auto, <<>>}
MinCompanies == {0, 10, 13}
TopNs == {-1, 0, 1, 2, 10}

ClusterCall ==
    /\ pc = "idle"
    /\ tool' = "find_industry_cluster"
    /\ \E industry \in Keywords, min_companies \in MinCompanies, top_n \in TopNs :
        args' = [industry |-> industry, min_companies |-> min_companies, top_n |-> top_n]
    /\ pc' = "cluster_fetch"
    /\ UNCHANGED <<fetched, body, results, ret>>

ClusterFetchRaised ==
    /\ pc = "cluster_fetch"
    /\ fetched' = Append(fetched, FetchRaised("regions", 250))
    /\ Return(Raised("transport"))
    /\ UNCHANGED <<tool, args, body, results>>

ClusterFetchFailed ==
    /\ pc = "cluster_fetch"
    /\ \E status \in {404, 500} :
        fetched' = Append(fetched, Responded("regions", 250, status))
    /\ Return(ErrorPayload("regions_unavailable"))
    /\ UNCHANGED <<tool, args, body, results>>

ClusterFetchOk ==
    /\ pc = "cluster_fetch"
    /\ \E regions \in RegionLists :
        LET clusters == Clusters(regions, args.industry, args.min_companies)
        IN  /\ body' = regions
            /\ results' = clusters
            /\ Return(Result(ClusterReport(clusters, args.industry, args.top_n)))
    /\ fetched' = Append(fetched, Responded("regions", 250, 200))
    /\ UNCHANGED <<tool, args>>

(* ---- get_company_360 ---- *)

BizNumbers == UNION {[1..n -> {"7", "-"}] : n \in 0..MaxBizLen}

Company ==
    [name |-> "Acme", status |-> "active", industry_name |-> "semi",
     address |-> "Suwon", employee_count |-> 120, employment_history |-> <<100, 120>>,
     financials |-> <<900>>, procurement_count |-> 2, procurement_amount |-> 500,
     recent_procurement |-> <<300, 200>>, health_score |-> 66, region_code |-> 41110]

CompanyCall ==
    /\ pc = "idle"
    /\ tool' = "get_company_360"
    /\ \E biz_no \in BizNumbers :
        /\ args' = [biz_no |-> biz_no]
        /\ IF BadBizNo(StripHyphens(biz_no))
           THEN Return(ErrorPayload("bad_biz_no"))
           ELSE pc' = "company_fetch" /\ UNCHANGED ret
    /\ UNCHANGED <<fetched, body, results>>

CompanyFetchRaised ==
    /\ pc = "company_fetch"
    /\ fetched' = Append(fetched, FetchRaised("company", StripHyphens(args.biz_no)))
    /\ Return(Raised("transport"))
    /\ UNCHANGED <<tool, args, body, results>>

CompanyFetchNotFound ==
    /\ pc = "company_fetch"
    /\ fetched' = Append(fetched, Responded("company", StripHyphens(args.biz_no), 404))
    /\ Return(ErrorPayload("company_not_found"))
    /\ UNCHANGED <<tool, args, body, results>>

CompanyFetchOk ==
    /\ pc = "company_fetch"
    /\ fetched' = Append(fetched, Responded("company", StripHyphens(args.biz_no), 200))
    /\ \E company \in {Company, EmptyObject} :
        /\ body' = company
        /\ Return(Result(CompanyProfile(StripHyphens(args.biz_no), company)))
    /\ UNCHANGED <<tool, args, results>>

CompanyFetchOther ==
    /\ pc = "company_fetch"
    /\ fetched' = Append(fetched, Responded("company", StripHyphens(args.biz_no), 500))
    /\ \/ /\ body' = ErrorBody
          /\ Return(Result(CompanyProfile(StripHyphens(args.biz_no), ErrorBody)))
       \/ /\ Return(Raised("json_decode"))
          /\ UNCHANGED body
    /\ UNCHANGED <<tool, args, results>>

(* ---- predict_complex_risk ---- *)

OccupancyRates == {-5, 69, 70, 84, 85, 120}
TenantCounts == {-2, 0, 1, 5, 10, 80}
OperatingCounts == {0, 3, 4, 5, 8, 23, 49}
Employments == {0, 999, 1000, 5000}

ComplexRecords ==
    { [id |-> 1, name |-> "X", occupancy_rate |-> o, tenant_count |-> t,
       operating_count |-> p, employment |-> e] :
        o \in OccupancyRates, t \in TenantCounts, p \in OperatingCounts,
        e \in Employments }
    \cup { [id |-> 1, name |-> "X", occupancy_rate |-> 90, operating_count |-> 4,
            employment |-> 2000] }

(* The complexes the list endpoint draws from: scores 80, 30 and 0. *)
ComplexKinds ==
    << [name |-> "H", occupancy_rate |-> 65, tenant_count |-> 10,
        operating_count |-> 5, employment |-> 500],
       [name |-> "M", occupancy_rate |-> 80, tenant_count |-> 10,
        operating_count |-> 7, employment |-> 2000],
       [name |-> "L", occupancy_rate |-> 90, tenant_count |-> 10,
        operating_count |-> 9, employment |-> 2000] >>

(* The kinds alternate with period 1 or 2. *)
Patterns == UNION {[1..m -> 1..Len(ComplexKinds)] : m \in 1..2}

(* A list of n complexes with ids 1..n whose kinds repeat the pattern. *)
PatternList(pattern, n) ==
    [i \in 1..n |-> ComplexKinds[pattern[((i - 1) % Len(pattern)) + 1]] @@ [id |-> i]]

ComplexLists == {PatternList(p, n) : p \in Patterns, n \in 0..MaxComplexes}

RiskCall ==
    /\ pc = "idle"
    /\ tool' = "predict_complex_risk"
    /\ \E complex_code \in {"", "COMPLEX-0001"}, province \in {"", "Gyeonggi"} :
        args' = [complex_code |-> complex_code, province |-> province]
    /\ pc' = "risk_fetch"
    /\ UNCHANGED <<fetched, body, results, ret>>

(* params = {"province": province} if province else {} *)
Params == IF args.province # "" THEN [province |-> args.province] ELSE EmptyObject

Finish(complexes) ==
    LET risk_results == RiskResults(complexes)
    IN  /\ body' = complexes
        /\ results' = risk_results
        /\ Return(Result(RiskReport(risk_results)))

RiskSingleRaised ==
    /\ pc = "risk_fetch"
    /\ args.complex_code # ""
    /\ fetched' = Append(fetched, FetchRaised("complex", args.complex_code))
    /\ Return(Raised("transport"))
    /\ UNCHANGED <<tool, args, body, results>>

RiskSingleNotFound ==
    /\ pc = "risk_fetch"
    /\ args.complex_code # ""
    /\ fetched' = Append(fetched, Responded("complex", args.complex_code, 404))
    /\ Return(ErrorPayload("complex_not_found"))
    /\ UNCHANGED <<tool, args, body, results>>

RiskSingleOk ==
    /\ pc = "risk_fetch"
    /\ args.complex_code # ""
    /\ fetched' = Append(fetched, Responded("complex", args.complex_code, 200))
    /\ \E cx \in ComplexRecords : Finish(<<cx>>)
    /\ UNCHANGED <<tool, args>>

RiskSingleOther ==
    /\ pc = "risk_fetch"
    /\ args.complex_code # ""
    /\ fetched' = Append(fetched, Responded("complex", args.complex_code, 500))
    /\ \/ Finish(<<ErrorBody>>)
       \/ /\ Return(Raised("json_decode"))
          /\ UNCHANGED <<body, results>>
    /\ UNCHANGED <<tool, args>>

RiskBulkRaised ==
    /\ pc = "risk_fetch"
    /\ args.complex_code = ""
    /\ fetched' = Append(fetched, FetchRaised("complexes", Params))
    /\ Return(Raised("transport"))
    /\ UNCHANGED <<tool, args, body, results>>

RiskBulkFailed ==
    /\ pc = "risk_fetch"
    /\ args.complex_code = ""
    /\ \E status \in {404, 500} :
        fetched' = Append(fetched, Responded("complexes", Params, status))
    /\ Return(ErrorPayload("complexes_unavailable"))
    /\ UNCHANGED <<tool, args, body, results>>

RiskBulkOk ==
    /\ pc = "risk_fetch"
    /\ args.complex_code = ""
    /\ fetched' = Append(fetched, Responded("complexes", Params, 200))
    /\ \E complexes \in ComplexLists : Finish(complexes)
    /\ UNCHANGED <<tool, args>>

(* ---- the invocation boundary ---- *)

(* Invocations are independent: nothing of one outlives it. *)
Reset ==
    /\ pc = "done"
    /\ pc' = "idle"
    /\ tool' = "none"
    /\ args' = EmptyObject
    /\ fetched' = <<>>
    /\ body' = EmptyObject
    /\ results' = <<>>
    /\ ret' = NoReturn

Next ==
    \/ HealthCall \/ HealthRegionRaised \/ HealthRegionNotFound \/ HealthRegionOk
    \/ HealthRegionOther \/ HealthMetricsRaised \/ HealthMetricsResponse
    \/ CompareCall \/ CompareFetchRaised \/ CompareFetchOk \/ CompareFetchFailed
    \/ ClusterCall \/ ClusterFetchRaised \/ ClusterFetchFailed \/ ClusterFetchOk
    \/ CompanyCall \/ CompanyFetchRaised \/ CompanyFetchNotFound \/ CompanyFetchOk
    \/ CompanyFetchOther
    \/ RiskCall \/ RiskSingleRaised \/ RiskSingleNotFound \/ RiskSingleOk
    \/ RiskSingleOther \/ RiskBulkRaised \/ RiskBulkFailed \/ RiskBulkOk
    \/ Reset

Spec == Init /\ [][Next]_vars

-----------------------------------------------------------------------------
(* Properties.                                                             *)

Finished(name) == pc = "done" /\ tool = name
Returned(name) == Finished(name) /\ ret.kind = "result"

Min(a, b) == IF a < b THEN a ELSE b

(* C1: every entry predict_complex_risk computes, for in-range and         *)
(* out-of-range inputs alike, has its risk_score in [0, 80], and its       *)
(* risk_level is "nopeum" (high) exactly when the score is >= 50, "botong" *)
(* (moderate) exactly when 25 <= score < 50, "najeum" (low) exactly when   *)
(* the score is < 25.                                                      *)
RiskScoreBoundedAndLevelled ==
    Returned("predict_complex_risk") =>
        \A k \in 1..Len(results) :
            LET e == results[k] IN
            /\ e.risk_score >= 0 /\ e.risk_score <= 80
            /\ (e.risk_level = "nopeum") <=> (e.risk_score >= 50)
            /\ (e.risk_level = "botong") <=> (e.risk_score >= 25 /\ e.risk_score < 50)
            /\ (e.risk_level = "najeum") <=> (e.risk_score < 25)

(* An out-of-range complex (occupancy 120, tenant count -2) that scores    *)
(* exactly the boundary 50 and is reported high.                           *)
RiskBoundaryWitness ==
    /\ Returned("predict_complex_risk")
    /\ \E k \in 1..Len(results) :
        /\ results[k].metrics.occupancy_rate = 120
        /\ results[k].metrics.tenant_count = -2
        /\ results[k].risk_score = 50
        /\ results[k].risk_level = "nopeum"

(* C2: a complex with tenant_count = 0 is reported with operating_rate 0,  *)
(* whatever its operating_count, and the invocation does not fault.        *)
ZeroTenantYieldsZeroRate ==
    Finished("predict_complex_risk") /\ fetched[1].status = 200 =>
        /\ ret.kind = "result"
        /\ \A i \in 1..Len(body) :
            ("tenant_count" \in DOMAIN body[i] /\ body[i].tenant_count = 0) =>
                \A k \in 1..Len(results) :
                    results[k].complex_code = Get(body[i], "id", 0) =>
                        results[k].metrics.operating_rate = 0

(* C3: compare_regions with more than 5 codes, and get_company_360 with a  *)
(* key that has not exactly 10 characters other than hyphens, return the   *)
(* validation error and issue no fetch at any point of the invocation; a   *)
(* list of at most 5 codes and a key of exactly 10 such characters are     *)
(* never answered with the validation error, and go on to fetch.           *)
KeyLength(biz_no) == Cardinality({i \in 1..Len(biz_no) : biz_no[i] # "-"})

ValidationPrecedesFetch ==
    /\ tool = "compare_regions" =>
        IF Len(args.region_codes) > 5
        THEN fetched = <<>> /\ pc = "done" /\ ret = ErrorPayload("too_many_regions")
        ELSE /\ ret # ErrorPayload("too_many_regions")
             /\ args.region_codes # <<>> => (pc = "compare_loop" \/ fetched # <<>>)
    /\ tool = "get_company_360" =>
        IF KeyLength(args.biz_no) # 10
        THEN fetched = <<>> /\ pc = "done" /\ ret = ErrorPayload("bad_biz_no")
        ELSE /\ ret # ErrorPayload("bad_biz_no")
             /\ (pc = "company_fetch" \/ Len(fetched) = 1)

(* A key of 12 characters, 10 of them not hyphens, was accepted and its    *)
(* fetch answered.                                                         *)
ValidationWitness ==
    /\ Finished("get_company_360")
    /\ Len(args.biz_no) = 12
    /\ KeyLength(args.biz_no) = 10
    /\ Len(fetched) = 1
    /\ ret.kind = "result"

(* C4: every invocation ends by returning a result or an error payload,    *)
(* whatever each fetch did, and on the single-key paths a fetch that did   *)
(* not succeed yields an error payload, never a result.                    *)
SingleKeyTool ==
    \/ tool \in {"get_region_health", "get_company_360"}
    \/ tool = "predict_complex_risk" /\ args.complex_code # ""

NoFaultCrossesBoundary ==
    pc = "done" =>
        /\ ret.kind \in {"result", "error"}
        /\ (SingleKeyTool /\ fetched # <<>>
                /\ (fetched[1].outcome = "raised" \/ fetched[1].status # 200))
            => ret.kind = "error"

(* C5: compare_regions with at most 5 codes fetches every code exactly     *)
(* once in request order whatever fails, returns a comparison of exactly   *)
(* the codes whose fetch succeeded, and an error exactly when none did.    *)
RECURSIVE Succeeded(_)
Succeeded(log) ==
    IF log = <<>> THEN <<>>
    ELSE (IF Head(log).outcome = "response" /\ Head(log).status = 200
          THEN <<Head(log).key>> ELSE <<>>) \o Succeeded(Tail(log))

FailedFetchNeverAborts ==
    (Finished("compare_regions") /\ Len(args.region_codes) <= 5) =>
        /\ Len(fetched) = Len(args.region_codes)
        /\ \A i \in 1..Len(fetched) :
            fetched[i].endpoint = "region" /\ fetched[i].key = args.region_codes[i]
        /\ ret.kind \in {"result", "error"}
        /\ (ret.kind = "error") <=> (Succeeded(fetched) = <<>>)
        /\ ret.kind = "result" =>
            /\ ret.payload.count = Len(Succeeded(fetched))
            /\ Len(results) = Len(Succeeded(fetched))
            /\ \A i \in 1..Len(results) : results[i].region_code = Succeeded(fetched)[i]
            /\ {ret.payload.comparison[k].region_code : k \in 1..ret.payload.count}
                 = Range(Succeeded(fetched))


(* The part of C5 the code does keep: when every failure arrives as a      *)
(* response with a non-success status, no code is skipped.                 *)
StatusFailureNeverAborts ==
    (Finished("compare_regions") /\ Len(args.region_codes) <= 5
        /\ \A i \in 1..Len(fetched) : fetched[i].outcome = "response") =>
        /\ Len(fetched) = Len(args.region_codes)
        /\ \A i \in 1..Len(fetched) : fetched[i].key = args.region_codes[i]
        /\ (ret.kind = "error") <=> (Succeeded(fetched) = <<>>)
        /\ ret.kind = "result" =>
            /\ ret.payload.count = Len(Succeeded(fetched))
            /\ \A i \in 1..Len(results) : results[i].region_code = Succeeded(fetched)[i]

(* C6: in a comparison of N fetched records, for health_rank and for each  *)
(* of the four <metric>_rank fields the ranks are 1..N each exactly once,  *)
(* a strictly greater value has a strictly smaller rank, equal values are  *)
(* ranked in request order; the returned list is ordered by health_rank    *)
(* and best_health names the record of health_rank 1.                      *)
Rankings ==
    { <<"health_score", "health_rank">>,
      <<"health_score", "health_score_rank">>,
      <<"company_count", "company_count_rank">>,
      <<"employee_count", "employee_count_rank">>,
      <<"growth_rate", "growth_rate_rank">> }

StableDescendingRanking ==
    Returned("compare_regions") =>
        LET N == Len(results)
            cmp == ret.payload.comparison
        IN  /\ Len(results) = Len(Succeeded(fetched))
            /\ \A i \in 1..N : results[i].region_code = Succeeded(fetched)[i]
            /\ \A r \in Rankings :
                LET m == r[1]
                    rk == r[2]
                IN  /\ {results[i][rk] : i \in 1..N} = 1..N
                    /\ \A i, j \in 1..N :
                        /\ results[i][m] > results[j][m] => results[i][rk] < results[j][rk]
                        /\ (i < j /\ results[i][m] = results[j][m])
                            => results[i][rk] < results[j][rk]
            /\ Len(cmp) = N
            /\ ret.payload.count = N
            /\ \A k \in 1..N :
                /\ cmp[k].health_rank = k
                /\ \E i \in 1..N : cmp[k] = results[i]
            /\ \E i \in 1..N :
                results[i].health_rank = 1 /\ ret.payload.best_health = results[i].name

(* C (60) asked first, then A and B, which tie at 80: A is ranked 1, B 2   *)
(* and C 3, while on company_count B and C tie ahead of A.                 *)
RankingWitness ==
    /\ Returned("compare_regions")
    /\ args.region_codes = <<11030, 11010, 11020>>
    /\ Len(results) = 3
    /\ results[1].health_rank = 3
    /\ results[2].health_rank = 1
    /\ results[3].health_rank = 2
    /\ results[1].company_count_rank = 1
    /\ results[3].company_count_rank = 2
    /\ ret.payload.best_health = "A"

(* C7: find_industry_cluster never returns more than top_n entries (none   *)
(* when top_n is zero or negative), and total_clusters is at least the     *)
(* number of entries returned.                                             *)
AtMostTopN ==
    Returned("find_industry_cluster") =>
        LET top == ret.payload.top_clusters
        IN  /\ Len(top) <= (IF args.top_n > 0 THEN args.top_n ELSE 0)
            /\ ret.payload.total_clusters >= Len(top)

(* C8: the risk report lists the first min(20, N) entries of all N         *)
(* complexes sorted by descending risk_score with ties in input order,     *)
(* while total_analyzed is N and high_risk_count counts the high complexes *)
(* among all N; a list fetch that answers with no complexes returns the    *)
(* zero report, not an error.                                              *)
InputIndex(code) == CHOOSE i \in 1..Len(body) : Get(body[i], "id", 0) = code

TruncatedListFullCounts ==
    (Finished("predict_complex_risk") /\ fetched[1].outcome = "response"
        /\ fetched[1].status = 200) =>
        LET N == Len(body)
            rep == ret.payload
        IN  /\ ret.kind = "result"
            /\ Len(results) = N
            /\ {results[k].complex_code : k \in 1..N} = {Get(body[i], "id", 0) : i \in 1..N}
            /\ \A k, l \in 1..N :
                k < l =>
                    \/ results[k].risk_score > results[l].risk_score
                    \/ /\ results[k].risk_score = results[l].risk_score
                       /\ InputIndex(results[k].complex_code)
                            < InputIndex(results[l].complex_code)
            /\ rep.total_analyzed = N
            /\ rep.high_risk_count = Cardinality({k \in 1..N : results[k].risk_score >= 50})
            /\ Len(rep.results) = Min(20, N)
            /\ \A k \in 1..Len(rep.results) : rep.results[k] = results[k]
            /\ N = 0 => (rep.total_analyzed = 0 /\ rep.high_risk_count = 0
                          /\ rep.results = <<>>)

(* More than 20 complexes, all of them high: 20 are listed and all are     *)
(* counted.                                                                *)
TruncationWitness ==
    /\ Returned("predict_complex_risk")
    /\ Len(body) > 20
    /\ Len(ret.payload.results) = 20
    /\ ret.payload.total_analyzed = Len(body)
    /\ ret.payload.high_risk_count = Len(body)

(* C9: the band of get_region_health is "wiheom" exactly for score < 40,   *)
(* "juui" for 40 <= score < 55, "botong" for 55 <= score < 70, "yangho"    *)
(* for 70 <= score < 85 and "usu" for score >= 85: every score has exactly *)
(* one band and each boundary value belongs to the upper band.             *)
BandsPartitionScores ==
    Returned("get_region_health") =>
        LET s == ret.payload.health_score
            b == ret.payload.health_band
        IN  /\ (b = "wiheom") <=> (s < 40)
            /\ (b = "juui") <=> (40 <= s /\ s < 55)
            /\ (b = "botong") <=> (55 <= s /\ s < 70)
            /\ (b = "yangho") <=> (70 <= s /\ s < 85)
            /\ (b = "usu") <=> (s >= 85)
            /\ s = Get(body, "health_score", 0)

(* The boundary score 85 is reported in the top band. *)
BandBoundaryWitness ==
    /\ Returned("get_region_health")
    /\ ret.payload.health_score = 85
    /\ ret.payload.health_band = "usu"

(* C10: each region contributes at most one cluster entry, taken from the  *)
(* first entry of its top_industries whose name contains the keyword; the  *)
(* region is retained exactly when that first entry has count >=           *)
(* min_companies, whatever later entries hold.                             *)
IsFirstHit(industries, k) ==
    /\ Contains(args.industry, industries[k].name)
    /\ \A j \in 1..(k - 1) : ~Contains(args.industry, industries[j].name)

FirstHitDecides ==
    Returned("find_industry_cluster") =>
        /\ \A c \in 1..Len(results) :
            \E i \in 1..Len(body) : body[i].code = results[c].region_code
        /\ \A i \in 1..Len(body) :
            LET industries == Get(body[i], "top_industries", <<>>)
                entries == {c \in 1..Len(results) : results[c].region_code = body[i].code}
            IN  /\ Cardinality(entries) <= 1
                /\ (entries # {}) <=>
                    \E k \in 1..Len(industries) :
                        IsFirstHit(industries, k) /\ industries[k].count >= args.min_companies
                /\ \A c \in entries : \E k \in 1..Len(industries) :
                    /\ IsFirstHit(industries, k)
                    /\ results[c].industry_name = industries[k].name
                    /\ results[c].company_count = industries[k].count

(* The region whose first hit has count 8 and whose later hit has count 12 *)
(* is left out at min_companies = 10.                                      *)
FirstHitWitness ==
    /\ Returned("find_industry_cluster")
    /\ args.industry = Semi
    /\ args.min_companies = 10
    /\ \E i \in 1..Len(body) : body[i].code = 41110
    /\ \A c \in 1..Len(results) : results[c].region_code # 41110
    /\ results # <<>>

=============================================================================
